---- MODULE Spec2Model ----
(***************************************************************************)
(* Portfolio Analytics API (src/api/main.py): the process-wide DATA_CACHE, *)
(* the spreadsheet loader load_excel_data, the lazy-load guard             *)
(* ensure_data_loaded, the derived-metric functions and the query          *)
(* endpoints.                                                              *)
(*                                                                         *)
(* Numbers.  Python floats are modelled as fixed-point integers counting   *)
(* thousandths: the integer n stands for n/1000, so 0.15 is 150, 1.0 is    *)
(* 1000 and 22.5 is 22500.  round(x, 1) rounds to a multiple of 100 and    *)
(* round(x, 2) to a multiple of 10.  Binary floating-point error is not    *)
(* modelled.  Integers (quantity, counts) are plain integers.              *)
(*                                                                         *)
(* Strings.  The rupee glyph of the column headers is written "Rs".        *)
(***************************************************************************)
EXTENDS Integers, Sequences, FiniteSets, TLC

VARIABLES
    DATA_CACHE,   \* main.py:96 the six tables, each None or a list of entries
    started,      \* whether startup_event (main.py:539) has run
    file,         \* the spreadsheet the last load attempt found at EXCEL_FILE_PATH
    response,     \* what the last handler did and returned to its caller
    requests,     \* the requests in flight: endpoint, position, state of their load
    running       \* the request whose task holds the event loop, 0 when none does

vars == <<DATA_CACHE, started, file, response, requests, running>>

(***************************************************************************)
(* Bounds of the model.                                                    *)
(***************************************************************************)
MaxRows == 2      \* rows of a Holdings sheet offered to the loader
MaxRequests == 2  \* requests in flight at one time

(***************************************************************************)
(* Python values.                                                          *)
(***************************************************************************)
\* A spreadsheet cell: blank (None), a number, or a string.
Null == [k |-> "null", n |-> 0, s |-> ""]
Num(x) == [k |-> "num", n |-> x, s |-> ""]
Str(x) == [k |-> "str", n |-> 0, s |-> x]

\* Python truthiness of a cell: None, 0 / 0.0 and "" are falsy.
Truthy(c) == \/ c.k = "num" /\ c.n # 0
             \/ c.k = "str" /\ c.s # ""

\* a or b
PyOr(a, b) == IF Truthy(a) THEN a ELSE b

\* dict.get(key, default) on a row (a function from column name to cell)
Get(row, key, default) == IF key \in DOMAIN row THEN row[key] ELSE default

\* The strings of the model that Python's float() accepts, with their value.
NumericStrings == {"150", "0.5"}
ParseFloat(s) == IF s = "150" THEN 150000 ELSE 500

\* float(c) raises ValueError on a non-numeric string (TypeError on None).
FloatRaises(c) == \/ c.k = "null"
                  \/ c.k = "str" /\ c.s \notin NumericStrings
Float(c) == IF c.k = "num" THEN c.n ELSE ParseFloat(c.s)

\* abs(c) raises TypeError on any string.
AbsRaises(c) == c.k # "num"
Abs(x) == IF x < 0 THEN -x ELSE x

\* int(x) truncates toward zero; the result is a whole number.
IntTrunc(x) == IF x >= 0 THEN x \div 1000 ELSE -((-x) \div 1000)

\* str(c): the text of a string, "None" for None.
PyStr(c) == IF c.k = "str" THEN c.s
            ELSE IF c.k = "null" THEN "None"
            ELSE ToString(c.n)

\* A table of DATA_CACHE: None, or a list of entries (a dict is the list of
\* its items in insertion order).
None == [isNone |-> TRUE, rows |-> <<>>]
Some(rows) == [isNone |-> FALSE, rows |-> rows]
\* `not table`: None, [] and {} are falsy.
Falsy(t) == t.isNone \/ t.rows = <<>>

RECURSIVE SeqsUpTo(_, _)
SeqsUpTo(S, n) ==
    IF n = 0 THEN {<<>>}
    ELSE LET shorter == SeqsUpTo(S, n - 1)
         IN  shorter \cup {Append(q, x) : q \in {r \in shorter : Len(r) = n - 1}, x \in S}

\* The nearest integer to a / b (b # 0), ties to the even neighbour.
RoundDiv(a, b) ==
    LET n == IF b < 0 THEN -a ELSE a
        d == IF b < 0 THEN -b ELSE b
        q == n \div d
        r == n % d
    IN  IF 2 * r < d THEN q
        ELSE IF 2 * r > d THEN q + 1
        ELSE IF q % 2 = 0 THEN q ELSE q + 1

\* round(x, 1) and round(x, 2) of a number in thousandths.
Round1(x) == 100 * RoundDiv(x, 100)
Round2(x) == 10 * RoundDiv(x, 10)

(***************************************************************************)
(* Column headers.  A header is the sequence of its fragments, so that     *)
(* `"avg" in col.lower()` is a search for a fragment.                      *)
(***************************************************************************)
\* str.lower() on one fragment: the fragments with capitals, lowered.
LowerCased ==
    [t \in {"Symbol", "Company", "Name", "Quantity", "Avg", "AVG", "Price", "PRICE",
            "Current", "Sector", "Market", "Cap", "Value", "VALUE", "Gain", "Loss"} |->
        CASE t = "Symbol" -> "symbol"     [] t = "Company" -> "company"
          [] t = "Name" -> "name"         [] t = "Quantity" -> "quantity"
          [] t = "Avg" -> "avg"           [] t = "AVG" -> "avg"
          [] t = "Price" -> "price"       [] t = "PRICE" -> "price"
          [] t = "Current" -> "current"   [] t = "Sector" -> "sector"
          [] t = "Market" -> "market"     [] t = "Cap" -> "cap"
          [] t = "Value" -> "value"       [] t = "VALUE" -> "value"
          [] t = "Gain" -> "gain"         [] OTHER -> "loss"]
Lower(t) == IF t \in DOMAIN LowerCased THEN LowerCased[t] ELSE t

\* The fragments of col.lower() and of col.
LowerFragments(col) == {Lower(col[i]) : i \in 1..Len(col)}
RawFragments(col) == {col[i] : i \in 1..Len(col)}

\* Mutant: the gain_loss branch tested before the value branch.
FieldOfFragmentsGainFirst(low, raw) ==
    IF "avg" \in low /\ "price" \in low THEN "avg_price"
    ELSE IF "current" \in low /\ "price" \in low THEN "current_price"
    ELSE IF "gain" \in low /\ "loss" \in low /\ "Rs" \in raw THEN "gain_loss"
    ELSE IF "value" \in low /\ "Rs" \in raw THEN "value"
    ELSE IF "gain" \in low /\ "loss" \in low /\ "%" \in raw THEN "gain_loss_percent"
    ELSE IF "company" \in low /\ "name" \in low THEN "company_name"
    ELSE IF "market" \in low /\ "cap" \in low THEN "market_cap"
    ELSE ""

\* main.py:149-162, the if/elif chain on the fragments of col.lower() (low) and
\* of col (raw); "" when no branch is taken.
FieldOfFragments(low, raw) ==
    IF "avg" \in low /\ "price" \in low THEN "avg_price"
    ELSE IF "current" \in low /\ "price" \in low THEN "current_price"
    ELSE IF "value" \in low /\ "Rs" \in raw THEN "value"
    ELSE IF "gain" \in low /\ "loss" \in low /\ "Rs" \in raw THEN "gain_loss"
    ELSE IF "gain" \in low /\ "loss" \in low /\ "%" \in raw THEN "gain_loss_percent"
    ELSE IF "company" \in low /\ "name" \in low THEN "company_name"
    ELSE IF "market" \in low /\ "cap" \in low THEN "market_cap"
    ELSE ""

\* main.py:148-162 for one header
FieldOf(col) == FieldOfFragments(LowerFragments(col), RawFragments(col))

\* main.py:146-162, column_mapping: the headers that took a branch, with their field.
ColumnMapping(columns) ==
    [col \in {c \in columns : FieldOf(c) # ""} |-> FieldOf(col)]

\* The column name a header has after main.py:165-166.
Renamed(col) == IF FieldOf(col) # "" THEN <<FieldOf(col)>> ELSE col

\* DataFrame.rename raises when the new name is already the name of another
\* column: two headers are left with one name.
RenameRaises(columns) ==
    Cardinality({Renamed(c) : c \in columns}) < Cardinality(columns)

\* main.py:165-166 applied to one row: the same cells under the new column names.
RenameRowBy(row, renamed) ==
    [new \in {renamed[c] : c \in DOMAIN row} |->
        row[CHOOSE c \in DOMAIN row : renamed[c] = new]]
RenameRow(row) == RenameRowBy(row, [c \in DOMAIN row |-> Renamed(c)])

(***************************************************************************)
(* Holdings rows, main.py:171-221.                                         *)
(***************************************************************************)
\* row.get(name) / row.get(name, default) with a plain column name
RowGet(row, name, default) == Get(row, <<name>>, default)

\* main.py:175
SymbolOf(row) == PyOr(RowGet(row, "Symbol", Null), RowGet(row, "symbol", Null))
\* main.py:180-194
CompanyNameOf(row) ==
    PyOr(PyOr(RowGet(row, "company_name", Null), Get(row, <<"Company", " ", "Name">>, Null)),
         RowGet(row, "name", Str("")))
QuantityOf(row) == PyOr(RowGet(row, "Quantity", Null), RowGet(row, "quantity", Num(0)))
AvgPriceOf(row) == PyOr(RowGet(row, "avg_price", Null), RowGet(row, "avgPrice", Num(0)))
CurrentPriceOf(row) ==
    PyOr(RowGet(row, "current_price", Null), RowGet(row, "currentPrice", Num(0)))
SectorOf(row) == PyOr(RowGet(row, "Sector", Null), RowGet(row, "sector", Str("")))
MarketCapOf(row) ==
    PyOr(RowGet(row, "market_cap", Null), Get(row, <<"Market", " ", "Cap">>, Str("")))
ValueOf(row) == PyOr(RowGet(row, "value", Null), RowGet(row, "Value", Num(0)))
GainLossOf(row) == PyOr(RowGet(row, "gain_loss", Null), RowGet(row, "gainLoss", Num(0)))
GainLossPercentOf(row) ==
    PyOr(RowGet(row, "gain_loss_percent", Null), RowGet(row, "gainLossPercent", Num(0)))

\* `float(x) if x else 0.0`
FloatOrZero(c) == IF Truthy(c) THEN Float(c) ELSE 0
FloatOrZeroRaises(c) == Truthy(c) /\ FloatRaises(c)

\* Mutant: the fraction test written abs(x) < 1.
NormalizeGainLossPercentStrict(c) ==
    IF Truthy(c) /\ Abs(c.n) < 1000 THEN Float(c) * 100
    ELSE IF Truthy(c) THEN Float(c)
    ELSE 0

\* main.py:208-212, the stored gainLossPercent of a raw cell
NormalizeGainLossPercent(c) ==
    IF Truthy(c) /\ Abs(c.n) <= 1000 THEN Float(c) * 100
    ELSE IF Truthy(c) THEN Float(c)
    ELSE 0
\* abs() of a string raises TypeError
NormalizeGainLossPercentRaises(c) == Truthy(c) /\ AbsRaises(c)

\* main.py:196-214 raises, so that main.py:216-218 skips the row
HoldingRaises(row) ==
    \/ FloatOrZeroRaises(QuantityOf(row))
    \/ FloatOrZeroRaises(AvgPriceOf(row))
    \/ FloatOrZeroRaises(CurrentPriceOf(row))
    \/ FloatOrZeroRaises(ValueOf(row))
    \/ FloatOrZeroRaises(GainLossOf(row))
    \/ NormalizeGainLossPercentRaises(GainLossPercentOf(row))

\* main.py:198-213, the dictionary appended for a row
HoldingOf(row) ==
    [symbol |-> PyStr(SymbolOf(row)),
     name |-> PyStr(CompanyNameOf(row)),
     quantity |-> IF Truthy(QuantityOf(row)) THEN IntTrunc(Float(QuantityOf(row))) ELSE 0,
     avgPrice |-> FloatOrZero(AvgPriceOf(row)),
     currentPrice |-> FloatOrZero(CurrentPriceOf(row)),
     sector |-> PyStr(SectorOf(row)),
     marketCap |-> PyStr(MarketCapOf(row)),
     value |-> FloatOrZero(ValueOf(row)),
     gainLoss |-> FloatOrZero(GainLossOf(row)),
     gainLossPercent |-> NormalizeGainLossPercent(GainLossPercentOf(row))]

\* main.py:172-218 for one (renamed) row: kept unless it has no symbol or raises
HoldingKept(row) == Truthy(SymbolOf(row)) /\ ~HoldingRaises(row)

\* main.py:171-218, holdings_data of the rows of the Holdings sheet
RECURSIVE HoldingsData(_)
HoldingsData(rows) ==
    IF rows = <<>> THEN <<>>
    ELSE LET row == RenameRow(Head(rows))
             rest == HoldingsData(Tail(rows))
         IN  IF HoldingKept(row) THEN <<HoldingOf(row)>> \o rest ELSE rest

(***************************************************************************)
(* The other five sheets, main.py:223-359.  Their rows are records named   *)
(* by the columns the code reads after its fixed renames (main.py:229-235, *)
(* 269, 288-290).                                                          *)
(***************************************************************************)
\* str(date_val)[:10] (main.py:244): the first ten characters of the text
Prefix10(s) == IF s = "2024-03-31 00:00:00" THEN "2024-03-31" ELSE s

\* main.py:239
DateOf(row) == row.Date

\* main.py:249-257: a float() of a non-numeric cell is not caught per row
PerformanceRaises(row) ==
    Truthy(DateOf(row)) /\ (\/ FloatOrZeroRaises(row.portfolio_value)
                            \/ FloatOrZeroRaises(row.nifty50)
                            \/ FloatOrZeroRaises(row.gold))

\* main.py:246-259
PerformanceOf(row) ==
    [date |-> Prefix10(PyStr(DateOf(row))),
     portfolio |-> FloatOrZero(row.portfolio_value),
     nifty50 |-> FloatOrZero(row.nifty50),
     gold |-> FloatOrZero(row.gold)]

\* main.py:237-259, performance_data
RECURSIVE PerformanceData(_)
PerformanceData(rows) ==
    IF rows = <<>> THEN <<>>
    ELSE IF Truthy(DateOf(Head(rows)))
         THEN <<PerformanceOf(Head(rows))>> \o PerformanceData(Tail(rows))
         ELSE PerformanceData(Tail(rows))

\* d[key] = entry on a dict kept as the list of its items: an existing key keeps
\* its place and takes the new entry, a new key goes last.
DictSet(d, entry) ==
    IF \E i \in 1..Len(d) : d[i].key = entry.key
    THEN [i \in 1..Len(d) |-> IF d[i].key = entry.key THEN entry ELSE d[i]]
    ELSE Append(d, entry)

\* `float(row["Percentage"]) * 100 if row["Percentage"] else 0.0` (main.py:276-278, 304-306)
PercentageOf(c) == IF Truthy(c) THEN Float(c) * 100 ELSE 0

\* main.py:273-279
SectorRaises(row) ==
    Truthy(row.Sector) /\ (FloatOrZeroRaises(row.value) \/ FloatOrZeroRaises(row.Percentage))

\* main.py:271-279, sector_data
RECURSIVE SectorData(_)
SectorData(rows) ==
    IF rows = <<>> THEN <<>>
    ELSE LET row == rows[Len(rows)]
             before == SectorData(SubSeq(rows, 1, Len(rows) - 1))
         IN  IF Truthy(row.Sector)
             THEN DictSet(before, [key |-> PyStr(row.Sector),
                                   value |-> FloatOrZero(row.value),
                                   percentage |-> PercentageOf(row.Percentage)])
             ELSE before

\* str(x).replace(",", "").replace("Rs", "").strip() (main.py:296, 324, 347)
CleanNumber(s) ==
    CASE s = "Rs1,234.50" -> "1234.50"
      [] s = " 150 " -> "150"
      [] OTHER -> s

\* The strings float() accepts after cleaning, with their value.
CleanNumericStrings == NumericStrings \cup {"1234.50"}
ParseClean(s) == IF s = "1234.50" THEN 1234500 ELSE ParseFloat(s)

\* main.py:296-300: the value of a Market_Cap row; an unparsable text gives 0.0
MarketCapValue(c) ==
    IF c.k = "num" THEN c.n
    ELSE IF c.k = "str" /\ CleanNumber(c.s) \in CleanNumericStrings
         THEN ParseClean(CleanNumber(c.s))
         ELSE 0

\* main.py:304-306: the percentage of a Market_Cap row is converted unguarded
MarketCapRaises(row) == Truthy(row.market_cap) /\ FloatOrZeroRaises(row.Percentage)

\* main.py:292-307, market_cap_data
RECURSIVE MarketCapData(_)
MarketCapData(rows) ==
    IF rows = <<>> THEN <<>>
    ELSE LET row == rows[Len(rows)]
             before == MarketCapData(SubSeq(rows, 1, Len(rows) - 1))
         IN  IF Truthy(row.market_cap)
             THEN DictSet(before, [key |-> PyStr(row.market_cap),
                                   value |-> MarketCapValue(row.value),
                                   percentage |-> PercentageOf(row.Percentage)])
             ELSE before

\* main.py:323-328 and 346-351: a text is cleaned and becomes a number when
\* float() accepts it, and stays as it is otherwise
CleanCell(c) ==
    IF c.k = "str"
    THEN IF CleanNumber(c.s) \in CleanNumericStrings
         THEN Num(ParseClean(CleanNumber(c.s)))
         ELSE Str(CleanNumber(c.s))
    ELSE c

\* main.py:316-330, summary_data
RECURSIVE SummaryData(_)
SummaryData(rows) ==
    IF rows = <<>> THEN <<>>
    ELSE LET row == rows[Len(rows)]
             before == SummaryData(SubSeq(rows, 1, Len(rows) - 1))
         IN  IF Truthy(row.Metric)
             THEN DictSet(before, [key |-> PyStr(row.Metric), value |-> CleanCell(row.Value)])
             ELSE before

\* main.py:353-357: the performance text is cleaned at 346-351 only inside the
\* try; a text float() rejects is kept uncleaned
TopPerformance(c) ==
    IF c.k = "str" /\ CleanNumber(c.s) \in CleanNumericStrings
    THEN Num(ParseClean(CleanNumber(c.s)))
    ELSE c

\* main.py:339-357, top_performers_data
RECURSIVE TopPerformersData(_)
TopPerformersData(rows) ==
    IF rows = <<>> THEN <<>>
    ELSE LET row == rows[Len(rows)]
             before == TopPerformersData(SubSeq(rows, 1, Len(rows) - 1))
         IN  IF Truthy(row.Metric)
             THEN DictSet(before, [key |-> PyStr(row.Metric),
                                   symbol |-> row.Symbol,
                                   name |-> row.CompanyName,
                                   performance |-> TopPerformance(row.Performance)])
             ELSE before

\* Some row of the sheet makes its conversion loop raise.
AnyPerformanceRaises(rows) == \E i \in 1..Len(rows) : PerformanceRaises(rows[i])
AnySectorRaises(rows) == \E i \in 1..Len(rows) : SectorRaises(rows[i])
AnyMarketCapRaises(rows) == \E i \in 1..Len(rows) : MarketCapRaises(rows[i])

(***************************************************************************)
(* load_excel_data, main.py:109-366.  A spreadsheet file is what the       *)
(* loader finds on disk at one call: whether the path exists and, for each *)
(* sheet, whether it can be read and its rows.  engine is the reader that  *)
(* can open the Holdings sheet: "openpyxl" (main.py:121-126), "pandas"     *)
(* (only the fallback of main.py:131-136 succeeds) or "none".              *)
(***************************************************************************)
AllNone ==
    [holdings |-> None, historical_performance |-> None, sector_allocation |-> None,
     market_cap |-> None, top_performers |-> None, summary |-> None]

\* main.py:264-281
LoadFromSector(f, cache) ==
    IF ~f.sector.ok \/ AnySectorRaises(f.sector.rows)
    THEN [ok |-> FALSE, cache |-> cache]
    ELSE LET c3 == [cache EXCEPT !.sector_allocation = Some(SectorData(f.sector.rows))]
         IN  \* main.py:283-309
             IF ~f.market_cap.ok \/ AnyMarketCapRaises(f.market_cap.rows)
             THEN [ok |-> FALSE, cache |-> c3]
             ELSE LET c4 == [c3 EXCEPT !.market_cap = Some(MarketCapData(f.market_cap.rows))]
                  IN  \* main.py:311-332
                      IF ~f.summary.ok
                      THEN [ok |-> FALSE, cache |-> c4]
                      ELSE LET c5 == [c4 EXCEPT !.summary = Some(SummaryData(f.summary.rows))]
                           IN  \* main.py:334-362
                               IF ~f.top_performers.ok
                               THEN [ok |-> FALSE, cache |-> c5]
                               ELSE [ok |-> TRUE,
                                     cache |-> [c5 EXCEPT !.top_performers =
                                         Some(TopPerformersData(f.top_performers.rows))]]

\* load_excel_data: its return value and the cache it leaves behind.
load_excel_data(f, cache) ==
    \* main.py:113-115
    IF ~f.exists THEN [ok |-> FALSE, cache |-> cache]
    \* main.py:120-139
    ELSE IF f.holdings.engine = "none" THEN [ok |-> FALSE, cache |-> cache]
    \* main.py:165-166, caught at main.py:364
    ELSE IF RenameRaises(f.holdings.columns) THEN [ok |-> FALSE, cache |-> cache]
    ELSE \* main.py:171-221
         LET c1 == [cache EXCEPT !.holdings = Some(HoldingsData(f.holdings.rows))]
         IN  \* main.py:223-262
             IF ~f.performance.ok \/ AnyPerformanceRaises(f.performance.rows)
             THEN [ok |-> FALSE, cache |-> c1]
             ELSE LoadFromSector(f,
                     [c1 EXCEPT !.historical_performance =
                         Some(PerformanceData(f.performance.rows))])

\* Mutant: the load made on every call, whatever the cache holds.
ensure_data_reloaded(f, cache) ==
    LET r == load_excel_data(f, cache)
    IN  [load |-> IF r.ok THEN "ok" ELSE "failed", raised |-> ~r.ok, cache |-> r.cache]

\* ensure_data_loaded, main.py:369-376: whether a load was attempted, whether
\* HTTPException(500) was raised, and the cache afterwards.
ensure_data_loaded(f, cache) ==
    IF cache.holdings.isNone
    THEN LET r == load_excel_data(f, cache)
         IN  [load |-> IF r.ok THEN "ok" ELSE "failed", raised |-> ~r.ok, cache |-> r.cache]
    ELSE [load |-> "none", raised |-> FALSE, cache |-> cache]

(***************************************************************************)
(* Derived metrics, main.py:380-533.  Each reads the cache it is given.    *)
(* A function that can raise returns raised = TRUE and no result.          *)
(***************************************************************************)
\* sum(holding["value"] for holding in holdings_data)
RECURSIVE TotalValue(_)
TotalValue(holdings) ==
    IF holdings = <<>> THEN 0 ELSE Head(holdings).value + TotalValue(Tail(holdings))

\* main.py:395-402 and 428-435: the totals per category, in first-seen order
RECURSIVE GroupTotals(_, _)
GroupTotals(holdings, field) ==
    IF holdings = <<>> THEN <<>>
    ELSE LET h == holdings[Len(holdings)]
             before == GroupTotals(SubSeq(holdings, 1, Len(holdings) - 1), field)
             old == IF \E i \in 1..Len(before) : before[i].key = h[field]
                    THEN (CHOOSE e \in {before[i] : i \in 1..Len(before)} : e.key = h[field]).value
                    ELSE 0
         IN  DictSet(before, [key |-> h[field], value |-> old + h.value])

\* Mutant: the percentage cut to one decimal instead of rounded.
PercentOfTotalTruncated(value, total) == 100 * ((value * 1000) \div total)

\* round((value / total_value) * 100, 1), main.py:406 and 439
PercentOfTotal(value, total) == 100 * RoundDiv(value * 1000, total)

\* main.py:390-409 and 423-442, the fallback from holdings
FallbackAllocation(holdings_data, field) ==
    IF holdings_data.isNone \/ holdings_data.rows = <<>>
    THEN [raised |-> FALSE, result |-> <<>>]
    ELSE LET total == TotalValue(holdings_data.rows)
             totals == GroupTotals(holdings_data.rows, field)
         IN  IF total = 0
             THEN [raised |-> TRUE, result |-> <<>>]   \* ZeroDivisionError
             ELSE [raised |-> FALSE,
                   result |-> [i \in 1..Len(totals) |->
                       [key |-> totals[i].key, value |-> totals[i].value,
                        percentage |-> PercentOfTotal(totals[i].value, total)]]]

\* main.py:382-388 and 414-421: the precomputed table with rounded percentages
Precomputed(table) ==
    [i \in 1..Len(table) |->
        [key |-> table[i].key, value |-> table[i].value,
         percentage |-> Round1(table[i].percentage)]]

\* main.py:380-409
calculate_allocation_by_sector(cache) ==
    IF ~Falsy(cache.sector_allocation)
    THEN [raised |-> FALSE, result |-> Precomputed(cache.sector_allocation.rows)]
    ELSE FallbackAllocation(cache.holdings, "sector")

\* main.py:412-442
calculate_allocation_by_market_cap(cache) ==
    IF ~Falsy(cache.market_cap)
    THEN [raised |-> FALSE,
          result |-> SelectSeq(Precomputed(cache.market_cap.rows), LAMBDA e : e.value > 0)]
    ELSE FallbackAllocation(cache.holdings, "marketCap")

\* main.py:462-465
calculate_return(current_val, past_val) ==
    IF past_val > 0 THEN 100 * RoundDiv((current_val - past_val) * 1000, past_val) ELSE 0

Max(a, b) == IF a >= b THEN a ELSE b
Min(a, b) == IF a <= b THEN a ELSE b

\* Mutant: the 3-month point taken three points back instead of four.
Months3IndexOffByOne(n) == IF n >= 4 THEN Max(0, n - 3) + 1 ELSE 1

\* main.py:454-460: the indices (from 1) of the comparison points
Month1Index(n) == IF n >= 2 THEN n - 1 ELSE 1
Months3Index(n) == IF n >= 4 THEN Max(0, n - 4) + 1 ELSE 1
Year1Index(n) == 1

\* main.py:467-483 for one series
ReturnsOf(timeline, series) ==
    LET n == Len(timeline)
        current == timeline[n][series]
    IN  [month1 |-> calculate_return(current, timeline[Month1Index(n)][series]),
         months3 |-> calculate_return(current, timeline[Months3Index(n)][series]),
         year1 |-> calculate_return(current, timeline[Year1Index(n)][series])]

Series == {"portfolio", "nifty50", "gold"}

\* main.py:445-483: the returns map of a timeline, <<>> being the empty map
PerformanceReturnsOf(timeline) ==
    IF timeline = <<>> \/ Len(timeline) < 2 THEN <<>>
    ELSE [k \in Series |-> ReturnsOf(timeline, k)]

calculate_performance_returns(cache) ==
    IF cache.historical_performance.isNone THEN <<>>
    ELSE PerformanceReturnsOf(cache.historical_performance.rows)

\* Mutant: the score without its floor of 1.0.
DiversificationOfNoFloor(holdings) ==
    LET num_sectors == Cardinality({holdings[i].sector : i \in 1..Len(holdings)})
        num_holdings == Len(holdings)
        base_score == Min(num_sectors * 2, 10)
        concentration_penalty ==
            IF num_holdings > 10 THEN Max(0, (num_holdings - 10) * 100) ELSE 0
    IN  Min(10000, base_score * 1000 - concentration_penalty)

\* main.py:492-504 for a non-empty list of holdings
DiversificationOf(holdings) ==
    LET num_sectors == Cardinality({holdings[i].sector : i \in 1..Len(holdings)})
        num_holdings == Len(holdings)
        base_score == Min(num_sectors * 2, 10)
        concentration_penalty ==
            IF num_holdings > 10 THEN Max(0, (num_holdings - 10) * 100) ELSE 0
    IN  Min(10000, Max(1000, base_score * 1000 - concentration_penalty))

\* main.py:486-504
calculate_diversification_score(cache) ==
    IF Falsy(cache.holdings) THEN 5000 ELSE DiversificationOf(cache.holdings.rows)

HighRiskSectors == {"Technology", "Small Cap Stocks"}

\* main.py:520-524
RECURSIVE HighRiskExposure(_)
HighRiskExposure(holdings) ==
    IF holdings = <<>> THEN 0
    ELSE (IF Head(holdings).sector \in HighRiskSectors THEN Head(holdings).value ELSE 0)
         + HighRiskExposure(Tail(holdings))

\* Mutant: the thresholds of the ratio taken as inclusive.
RiskLevelOfInclusive(diversification_score, holdings) ==
    LET exposure == HighRiskExposure(holdings)
        total == TotalValue(holdings)
        below30 == IF total > 0 THEN 10 * exposure <= 3 * total ELSE TRUE
        below50 == IF total > 0 THEN 2 * exposure <= total ELSE TRUE
    IN  IF diversification_score >= 8000 /\ below30 THEN "Conservative"
        ELSE IF diversification_score >= 6000 /\ below50 THEN "Moderate"
        ELSE "Aggressive"

\* main.py:525-533: high_risk_ratio < 0.3 is 10 * exposure < 3 * total when total > 0
RiskLevelOf(diversification_score, holdings) ==
    LET exposure == HighRiskExposure(holdings)
        total == TotalValue(holdings)
        below30 == IF total > 0 THEN 10 * exposure < 3 * total ELSE TRUE
        below50 == IF total > 0 THEN 2 * exposure < total ELSE TRUE
    IN  IF diversification_score >= 8000 /\ below30 THEN "Conservative"
        ELSE IF diversification_score >= 6000 /\ below50 THEN "Moderate"
        ELSE "Aggressive"

\* main.py:507-533
determine_risk_level(diversification_score, cache) ==
    IF Falsy(cache.holdings) THEN "Moderate"
    ELSE RiskLevelOf(diversification_score, cache.holdings.rows)

(***************************************************************************)
(* get_portfolio_summary, main.py:657-788, the part after the lazy load.   *)
(***************************************************************************)
\* d.get(key, default) on a dict kept as the list of its items
HasKey(d, key) == \E i \in 1..Len(d) : d[i].key = key
Entry(d, key) == d[CHOOSE i \in 1..Len(d) : d[i].key = key]

\* summary_data.get(name, 0)
SummaryCell(summary, name) ==
    IF HasKey(summary, name) THEN Entry(summary, name).value ELSE Num(0)

\* main.py:676-681: float() of the four cells of the Summary sheet
SummaryNames ==
    <<"Total Portfolio Value", "Total Invested Amount", "Total Gain/Loss", "Total Gain/Loss %">>
SummaryTotalsRaise(summary) ==
    \E i \in 1..4 : FloatRaises(SummaryCell(summary, SummaryNames[i]))
SummaryTotals(summary) ==
    [totalValue |-> Float(SummaryCell(summary, SummaryNames[1])),
     totalInvested |-> Float(SummaryCell(summary, SummaryNames[2])),
     totalGainLoss |-> Float(SummaryCell(summary, SummaryNames[3])),
     totalGainLossPercent |-> Float(SummaryCell(summary, SummaryNames[4])) * 100]

\* sum(holding["quantity"] * holding["avgPrice"] for holding in holdings_data)
RECURSIVE TotalInvested(_)
TotalInvested(holdings) ==
    IF holdings = <<>> THEN 0
    ELSE Head(holdings).quantity * Head(holdings).avgPrice + TotalInvested(Tail(holdings))

\* main.py:684-691 and the rounding of main.py:773-776.  The percentage is kept
\* as the pair gain/loss : invested until it is rounded, so that no precision
\* is lost before round(x, 2).
DerivedTotals(holdings) ==
    LET total_value == TotalValue(holdings)
        total_invested == TotalInvested(holdings)
        total_gain_loss == total_value - total_invested
    IN  [totalValue |-> Round2(total_value),
         totalInvested |-> Round2(total_invested),
         totalGainLoss |-> Round2(total_gain_loss),
         totalGainLossPercent |->
             IF total_invested > 0
             THEN 10 * RoundDiv(total_gain_loss * 10000, total_invested)
             ELSE 0]

RoundedTotals(t) ==
    [totalValue |-> Round2(t.totalValue),
     totalInvested |-> Round2(t.totalInvested),
     totalGainLoss |-> Round2(t.totalGainLoss),
     totalGainLossPercent |-> Round2(t.totalGainLossPercent)]

\* top_performers_data.get(role, {}) read with .get("symbol", ""),
\* .get("name", ""), .get("performance", 0)
RoleEntry(top, role) ==
    IF HasKey(top, role)
    THEN [symbol |-> Entry(top, role).symbol, name |-> Entry(top, role).name,
          performance |-> Entry(top, role).performance]
    ELSE [symbol |-> Str(""), name |-> Str(""), performance |-> Num(0)]

\* TopPerformer(symbol=..., name=...) rejects a symbol or name that is no string
ModelRejects(e) == e.symbol.k # "str" \/ e.name.k # "str"

\* main.py:700-709 raise: float() of the performance, or the model's validation
GainPerformerRaises(e) == FloatRaises(e.performance) \/ ModelRejects(e)
\* main.py:712-731 raise: float() of a text that the loader could not parse
ValuePerformerRaises(e) == e.performance.k = "str" \/ ModelRejects(e)

GainPerformer(e) ==
    [symbol |-> e.symbol.s, name |-> e.name.s,
     gainPercent |-> Num(Float(e.performance) * 100), value |-> Null]
ValuePerformer(e) ==
    [symbol |-> e.symbol.s, name |-> e.name.s, gainPercent |-> Null, value |-> e.performance]

\* main.py:694-731
SheetPerformersRaise(top) ==
    \/ GainPerformerRaises(RoleEntry(top, "Best Performer"))
    \/ GainPerformerRaises(RoleEntry(top, "Worst Performer"))
    \/ ValuePerformerRaises(RoleEntry(top, "Highest Value"))
    \/ ValuePerformerRaises(RoleEntry(top, "Lowest Value"))
SheetPerformers(top) ==
    [topPerformer |-> GainPerformer(RoleEntry(top, "Best Performer")),
     worstPerformer |-> GainPerformer(RoleEntry(top, "Worst Performer")),
     highestValue |-> ValuePerformer(RoleEntry(top, "Highest Value")),
     lowestValue |-> ValuePerformer(RoleEntry(top, "Lowest Value"))]

\* sorted(holdings_data, key=..., reverse=True)[0]: the first holding, in list
\* order, whose key is the greatest (the sort is stable)
SortedFirst(holdings, field) ==
    holdings[CHOOSE i \in 1..Len(holdings) :
        /\ \A j \in 1..Len(holdings) : holdings[j][field] <= holdings[i][field]
        /\ \A j \in 1..(i - 1) : holdings[j][field] < holdings[i][field]]
\* sorted(holdings_data, key=..., reverse=True)[-1]: the last holding, in list
\* order, whose key is the least
SortedLast(holdings, field) ==
    holdings[CHOOSE i \in 1..Len(holdings) :
        /\ \A j \in 1..Len(holdings) : holdings[j][field] >= holdings[i][field]
        /\ \A j \in (i + 1)..Len(holdings) : holdings[j][field] > holdings[i][field]]

\* main.py:733-766
DerivedPerformers(holdings) ==
    LET top_holding == SortedFirst(holdings, "gainLossPercent")
        worst_holding == SortedLast(holdings, "gainLossPercent")
        highest_value_holding == SortedFirst(holdings, "value")
        lowest_value_holding == SortedLast(holdings, "value")
    IN  [topPerformer |-> [symbol |-> top_holding.symbol, name |-> top_holding.name,
                           gainPercent |-> Num(top_holding.gainLossPercent), value |-> Null],
         worstPerformer |-> [symbol |-> worst_holding.symbol, name |-> worst_holding.name,
                             gainPercent |-> Num(worst_holding.gainLossPercent), value |-> Null],
         highestValue |-> [symbol |-> highest_value_holding.symbol,
                           name |-> highest_value_holding.name,
                           gainPercent |-> Null, value |-> Num(highest_value_holding.value)],
         lowestValue |-> [symbol |-> lowest_value_holding.symbol,
                          name |-> lowest_value_holding.name,
                          gainPercent |-> Null, value |-> Num(lowest_value_holding.value)]]

\* main.py:666-783 on a cache whose holdings are not empty: raised, or the summary
SummaryOf(cache) ==
    LET fromSheet == ~Falsy(cache.summary)
        topSheet == ~Falsy(cache.top_performers)
        raised == \/ fromSheet /\ SummaryTotalsRaise(cache.summary.rows)
                  \/ topSheet /\ SheetPerformersRaise(cache.top_performers.rows)
        diversification_score == calculate_diversification_score(cache)
    IN  IF raised THEN [raised |-> TRUE, result |-> <<>>]
        ELSE [raised |-> FALSE,
              result |->
                [totals |-> IF fromSheet THEN RoundedTotals(SummaryTotals(cache.summary.rows))
                            ELSE DerivedTotals(cache.holdings.rows),
                 performers |-> IF topSheet THEN SheetPerformers(cache.top_performers.rows)
                                ELSE DerivedPerformers(cache.holdings.rows),
                 diversificationScore |-> Round1(diversification_score),
                 riskLevel |-> determine_risk_level(diversification_score, cache)]]

(***************************************************************************)
(* The spreadsheets offered to the loader.                                 *)
(***************************************************************************)
\* The headers of the Holdings sheet.
HoldingsColumns ==
    {<<"Symbol">>, <<"Company", " ", "Name">>, <<"Quantity">>, <<"Avg", " ", "Price">>,
     <<"Current", " ", "Price">>, <<"Sector">>, <<"Market", " ", "Cap">>,
     <<"Value", " ", "(", "Rs", ")">>, <<"Gain", "/", "Loss", " ", "(", "Rs", ")">>,
     <<"Gain", "/", "Loss", " ", "%">>}

HoldingsRow(symbol, name, quantity, avg, cur, sector, cap, value, gl, glp) ==
    [col \in HoldingsColumns |->
        CASE col = <<"Symbol">> -> symbol
          [] col = <<"Company", " ", "Name">> -> name
          [] col = <<"Quantity">> -> quantity
          [] col = <<"Avg", " ", "Price">> -> avg
          [] col = <<"Current", " ", "Price">> -> cur
          [] col = <<"Sector">> -> sector
          [] col = <<"Market", " ", "Cap">> -> cap
          [] col = <<"Value", " ", "(", "Rs", ")">> -> value
          [] col = <<"Gain", "/", "Loss", " ", "(", "Rs", ")">> -> gl
          [] OTHER -> glp]

\* 10 TCS bought at 1.0, now 1.2: value 12.0, gain 2.0, 0.2 of the cost
RowTCS == HoldingsRow(Str("TCS"), Str("Tata Consultancy"), Num(10000), Num(1000),
                      Num(1200), Str("Technology"), Str("Large"), Num(12000),
                      Num(2000), Num(200))
\* a symbol and categories, every numeric cell blank
RowBlank == HoldingsRow(Str("INFY"), Str("Infosys"), Null, Null, Null, Str("Banking"),
                        Str("Mid"), Null, Null, Null)
\* no symbol
RowNoSymbol == HoldingsRow(Null, Str("Nameless"), Num(1000), Num(1000), Num(1000),
                           Str("Banking"), Str("Small"), Num(1000), Num(0), Num(0))
\* a quantity that is no number
RowBadQuantity == HoldingsRow(Str("HDFC"), Str("HDFC Bank"), Str("abc"), Num(500),
                              Num(400), Str("Banking"), Str("Large"), Num(4000),
                              Num(-1000), Num(-20000))

HoldingsRows == {RowTCS, RowBlank, RowNoSymbol, RowBadQuantity}

HoldingsSheets ==
    {[engine |-> "none", columns |-> HoldingsColumns, rows |-> <<>>],
     [engine |-> "pandas", columns |-> HoldingsColumns, rows |-> <<RowTCS>>]}
    \cup {[engine |-> "openpyxl", columns |-> HoldingsColumns, rows |-> r] :
            r \in SeqsUpTo(HoldingsRows, MaxRows)}

Unreadable == [ok |-> FALSE, rows |-> <<>>]
Sheet(rows) == [ok |-> TRUE, rows |-> rows]

PerfRow(date, p, n, g) == [Date |-> date, portfolio_value |-> p, nifty50 |-> n, gold |-> g]
PerformanceSheets ==
    {Unreadable, Sheet(<<>>),
     Sheet(<<PerfRow(Str("2024-01-31"), Num(1000), Num(2000), Null),
             PerfRow(Null, Num(1), Num(1), Num(1)),
             PerfRow(Str("2024-03-31 00:00:00"), Num(1100), Num(1900), Num(600))>>),
     Sheet(<<PerfRow(Str("2024-01-31"), Str("n/a"), Num(2000), Num(500)),
             PerfRow(Str("2024-02-29"), Num(1100), Num(1900), Num(600))>>)}

AllocRow(cat, value, pct) == [Sector |-> cat, market_cap |-> cat, value |-> value, Percentage |-> pct]
SectorSheets ==
    {Unreadable, Sheet(<<>>),
     Sheet(<<AllocRow(Str("Technology"), Num(12000), Num(750)),
             AllocRow(Str("Banking"), Num(4000), Num(250))>>),
     Sheet(<<AllocRow(Str("Technology"), Str("n/a"), Num(750)),
             AllocRow(Str("Banking"), Num(4000), Num(250))>>)}
MarketCapSheets ==
    {Unreadable, Sheet(<<>>),
     Sheet(<<AllocRow(Str("Large"), Str("Rs1,234.50"), Num(1000)),
             AllocRow(Str("Small"), Str("n/a"), Null)>>),
     Sheet(<<AllocRow(Str("Large"), Num(12000), Str("n/a")),
             AllocRow(Str("Mid"), Num(4000), Num(250))>>)}

SummaryRow(metric, value) == [Metric |-> metric, Value |-> value]
SummarySheets ==
    {Unreadable, Sheet(<<>>),
     Sheet(<<SummaryRow(Str("Total Portfolio Value"), Str("Rs1,234.50")),
             SummaryRow(Str("Total Invested Amount"), Num(1000000)),
             SummaryRow(Str("Total Gain/Loss"), Num(234500)),
             SummaryRow(Str("Total Gain/Loss %"), Num(234))>>)}

TopRow(metric, symbol, name, perf) ==
    [Metric |-> metric, Symbol |-> symbol, CompanyName |-> name, Performance |-> perf]
TopPerformersSheets ==
    {Unreadable, Sheet(<<>>),
     Sheet(<<TopRow(Str("Best Performer"), Str("TCS"), Str("Tata Consultancy"), Num(200)),
             TopRow(Str("Worst Performer"), Str("HDFC"), Str("HDFC Bank"), Num(-200)),
             TopRow(Str("Highest Value"), Str("TCS"), Str("Tata Consultancy"), Str("Rs1,234.50")),
             TopRow(Str("Lowest Value"), Str("HDFC"), Str("HDFC Bank"), Num(4000))>>)}

NoFile ==
    [exists |-> FALSE, holdings |-> [engine |-> "none", columns |-> HoldingsColumns, rows |-> <<>>],
     performance |-> Unreadable, sector |-> Unreadable, market_cap |-> Unreadable,
     summary |-> Unreadable, top_performers |-> Unreadable]

\* The loader opens the sheets in a fixed order and gives up at the first one it
\* cannot open or convert, so two files differ for it only up to that sheet.  Of
\* the files that differ after it one is kept: after a sheet that cannot be
\* opened the later sheets cannot be opened either, and after a sheet with a row
\* that raises the later sheets are empty.
Rest(sheet, raises, later) ==
    /\ ~sheet.ok => \A i \in 1..Len(later) : later[i] = Unreadable
    /\ sheet.ok /\ raises => \A i \in 1..Len(later) : later[i] = Sheet(<<>>)
ReadInOrder(f) ==
    /\ f.holdings.engine = "none" =>
            \A s \in {f.performance, f.sector, f.market_cap, f.summary, f.top_performers} :
                s = Unreadable
    /\ Rest(f.performance, AnyPerformanceRaises(f.performance.rows),
            <<f.sector, f.market_cap, f.summary, f.top_performers>>)
    /\ Rest(f.sector, AnySectorRaises(f.sector.rows), <<f.market_cap, f.summary, f.top_performers>>)
    /\ Rest(f.market_cap, AnyMarketCapRaises(f.market_cap.rows), <<f.summary, f.top_performers>>)
    /\ Rest(f.summary, FALSE, <<f.top_performers>>)

FilesOf(holdings, performance, sector, market_cap, summary, top_performers) ==
    {NoFile} \cup
    {f \in [exists : {TRUE}, holdings : holdings, performance : performance,
            sector : sector, market_cap : market_cap, summary : summary,
            top_performers : top_performers] : ReadInOrder(f)}

Files == FilesOf(HoldingsSheets, PerformanceSheets, SectorSheets, MarketCapSheets,
                 SummarySheets, TopPerformersSheets)

(***************************************************************************)
(* The handlers.  response records, for the last handler run: op, its      *)
(* name; load, whether it attempted a load and how that ended; read,       *)
(* whether it went on to read the cache; cause, the exception raised       *)
(* inside its try block ("none", "load_failed" for ensure_data_loaded's    *)
(* HTTPException(500), "not_found" for an HTTPException(404), "error" for  *)
(* any other exception); status, the status the caller gets; body, the     *)
(* data returned.                                                          *)
(***************************************************************************)
Reply(op, e, read, cause, status, body) ==
    [op |-> op, load |-> e.load, read |-> read, cause |-> cause, status |-> status,
     body |-> body]

\* The `except Exception` of every endpoint (main.py:594-597, 616-619, 651-654,
\* 785-788, 812-815) catches HTTPException too, which is an Exception, and
\* raises HTTPException(500) in its place.
CaughtStatus(raisedStatus) == 500

\* A request that has not arrived.
NoRequest == [op |-> "none", pc |-> "idle", stage |-> 0, load |-> "none"]

Init ==
    /\ DATA_CACHE = AllNone
    /\ started = FALSE
    /\ file = NoFile
    /\ response = [op |-> "none", load |-> "none", read |-> FALSE, cause |-> "none",
                   status |-> 0, body |-> <<>>]
    /\ requests = [r \in 1..MaxRequests |-> NoRequest]
    /\ running = 0

\* startup_event, main.py:539-542: the result of the load is dropped
Startup(files) ==
    /\ ~started
    /\ \E f \in files :
        \E r \in {load_excel_data(f, DATA_CACHE)} :
            /\ DATA_CACHE' = r.cache
            /\ file' = f
            /\ response' = [op |-> "startup", load |-> IF r.ok THEN "ok" ELSE "failed",
                            read |-> FALSE, cause |-> "none", status |-> 0, body |-> <<>>]
    /\ started' = TRUE
    /\ UNCHANGED <<requests, running>>

\* The files a handler's lazy load may find; the file matters, and is looked
\* at, only when a load is made.
FilesFor(cache, files) == IF cache.holdings.isNone THEN files ELSE {file}

\* main.py:576-592
HoldingItems(holdings) ==
    [i \in 1..Len(holdings) |->
        [holdings[i] EXCEPT !.gainLossPercent = Round2(holdings[i].gainLossPercent)]]

\* get_portfolio_holdings, main.py:561-597
GetHoldingsReply(e) ==
    IF e.raised THEN Reply("holdings", e, FALSE, "load_failed", CaughtStatus(500), <<>>)
    ELSE IF Falsy(e.cache.holdings)
         THEN Reply("holdings", e, TRUE, "not_found", CaughtStatus(404), <<>>)
         ELSE Reply("holdings", e, TRUE, "none", 200, HoldingItems(e.cache.holdings.rows))

get_portfolio_holdings(files) ==
    /\ started
    /\ \E f \in FilesFor(DATA_CACHE, files) :
        \E e \in {ensure_data_loaded(f, DATA_CACHE)} :
            /\ DATA_CACHE' = e.cache
            /\ file' = f
            /\ response' = GetHoldingsReply(e)
    /\ UNCHANGED <<started, requests, running>>

\* get_portfolio_allocation, main.py:600-619
GetAllocationReply(e) ==
    IF e.raised THEN Reply("allocation", e, FALSE, "load_failed", CaughtStatus(500), <<>>)
    ELSE LET by_sector == calculate_allocation_by_sector(e.cache)
             by_cap == calculate_allocation_by_market_cap(e.cache)
         IN  IF by_sector.raised \/ by_cap.raised
             THEN Reply("allocation", e, TRUE, "error", CaughtStatus(500), <<>>)
             ELSE Reply("allocation", e, TRUE, "none", 200,
                        [bySector |-> by_sector.result, byMarketCap |-> by_cap.result])

get_portfolio_allocation(files) ==
    /\ started
    /\ \E f \in FilesFor(DATA_CACHE, files) :
        \E e \in {ensure_data_loaded(f, DATA_CACHE)} :
            /\ DATA_CACHE' = e.cache
            /\ file' = f
            /\ response' = GetAllocationReply(e)
    /\ UNCHANGED <<started, requests, running>>

\* get_portfolio_performance, main.py:622-654
GetPerformanceReply(e) ==
    IF e.raised THEN Reply("performance", e, FALSE, "load_failed", CaughtStatus(500), <<>>)
    ELSE IF Falsy(e.cache.historical_performance)
         THEN Reply("performance", e, TRUE, "not_found", CaughtStatus(404), <<>>)
         ELSE Reply("performance", e, TRUE, "none", 200,
                    [timeline |-> e.cache.historical_performance.rows,
                     returns |-> calculate_performance_returns(e.cache)])

get_portfolio_performance(files) ==
    /\ started
    /\ \E f \in FilesFor(DATA_CACHE, files) :
        \E e \in {ensure_data_loaded(f, DATA_CACHE)} :
            /\ DATA_CACHE' = e.cache
            /\ file' = f
            /\ response' = GetPerformanceReply(e)
    /\ UNCHANGED <<started, requests, running>>

\* get_portfolio_summary, main.py:657-788
GetSummaryReply(e) ==
    IF e.raised THEN Reply("summary", e, FALSE, "load_failed", CaughtStatus(500), <<>>)
    ELSE IF Falsy(e.cache.holdings)
         THEN Reply("summary", e, TRUE, "not_found", CaughtStatus(404), <<>>)
         ELSE LET r == SummaryOf(e.cache)
              IN  IF r.raised
                  THEN Reply("summary", e, TRUE, "error", CaughtStatus(500), <<>>)
                  ELSE Reply("summary", e, TRUE, "none", 200, r.result)

get_portfolio_summary(files) ==
    /\ started
    /\ \E f \in FilesFor(DATA_CACHE, files) :
        \E e \in {ensure_data_loaded(f, DATA_CACHE)} :
            /\ DATA_CACHE' = e.cache
            /\ file' = f
            /\ response' = GetSummaryReply(e)
    /\ UNCHANGED <<started, requests, running>>

\* get_market_cap_info, main.py:791-815
GetMarketCapReply(e) ==
    IF e.raised THEN Reply("marketcap", e, FALSE, "load_failed", CaughtStatus(500), <<>>)
    ELSE IF Falsy(e.cache.market_cap)
         THEN Reply("marketcap", e, TRUE, "not_found", CaughtStatus(404), <<>>)
         ELSE Reply("marketcap", e, TRUE, "none", 200, Precomputed(e.cache.market_cap.rows))

get_market_cap_info(files) ==
    /\ started
    /\ \E f \in FilesFor(DATA_CACHE, files) :
        \E e \in {ensure_data_loaded(f, DATA_CACHE)} :
            /\ DATA_CACHE' = e.cache
            /\ file' = f
            /\ response' = GetMarketCapReply(e)
    /\ UNCHANGED <<started, requests, running>>

\* health_check, main.py:819-830: no call of ensure_data_loaded
HealthReply(cache) ==
    LET data_loaded == ~cache.holdings.isNone /\ ~cache.historical_performance.isNone
    IN  [op |-> "health", load |-> "none", read |-> TRUE, cause |-> "none",
         status |-> 200,
         body |-> [status |-> IF data_loaded THEN "healthy" ELSE "degraded",
                   data_loaded |-> data_loaded]]

health_check ==
    /\ started
    /\ response' = HealthReply(DATA_CACHE)
    /\ UNCHANGED <<DATA_CACHE, started, file, requests, running>>

Next ==
    \/ Startup(Files)
    \/ get_portfolio_holdings(Files)
    \/ get_portfolio_allocation(Files)
    \/ get_portfolio_performance(Files)
    \/ get_portfolio_summary(Files)
    \/ get_market_cap_info(Files)
    \/ health_check

Spec == Init /\ [][Next]_vars

(***************************************************************************)
(* Claims about the loader and the endpoints, checked under Spec.          *)
(***************************************************************************)
Tables ==
    {"holdings", "historical_performance", "sector_allocation", "market_cap",
     "top_performers", "summary"}
Unpopulated(cache) == \A t \in Tables : cache[t].isNone
Populated(cache) == \A t \in Tables : ~cache[t].isNone

\* C1: a call of load_excel_data that returns False changes no table of
\* DATA_CACHE.
C1_FailedLoadLeavesSnapshot ==
    [][response'.load = "failed" => DATA_CACHE' = DATA_CACHE]_vars

\* C2: whenever a handler has read the snapshot, the snapshot is entirely
\* unpopulated or entirely populated.
C2_ReadersSeeWholeSnapshot ==
    response.read => Unpopulated(DATA_CACHE) \/ Populated(DATA_CACHE)

DataAccessors == {"holdings", "allocation", "performance", "summary", "marketcap"}

\* C3: a data accessor called while the snapshot is not loaded starts a load
\* attempt, and answers with an error when that attempt fails.
C3_QueryLoadsWhenNotLoaded ==
    [][(started /\ ~Populated(DATA_CACHE) /\ response'.op \in DataAccessors)
        => /\ response'.load # "none"
           /\ response'.load = "failed" => response'.status = 500]_vars

\* C4: a query that finds its table loaded but empty is reported as "not
\* found" (404), never as an internal failure (500).
C4_MissingDataIsNotFound ==
    response.cause = "not_found" => response.status = 404

\* Every sheet of the file can be opened and the Holdings headers can be renamed.
Openable(f) ==
    /\ f.exists
    /\ f.holdings.engine # "none"
    /\ ~RenameRaises(f.holdings.columns)
    /\ f.performance.ok /\ f.sector.ok /\ f.market_cap.ok /\ f.summary.ok
    /\ f.top_performers.ok

\* C5: no row makes a load fail: a load of a file whose six sheets can be
\* opened returns True.
C5_BadRowNeverFailsLoad ==
    response.load = "failed" => ~Openable(file)

\* The rows of the Holdings sheet that have a symbol.
SymbolRows(f) ==
    Cardinality({i \in 1..Len(f.holdings.rows) : Truthy(f.holdings.rows[i][<<"Symbol">>])})

\* C6: after a successful load, get-all-holdings returns as many holdings as
\* the Holdings sheet has rows with a symbol.
C6_HoldingsCountIsSymbolRows ==
    (response.op = "holdings" /\ response.load = "ok" /\ response.status = 200)
        => Len(response.body) = SymbolRows(file)

\* C8: when both allocations are computed from holdings that are empty or
\* whose values sum to zero, get-allocation answers with two empty
\* allocations and no error.
C8_DegenerateAllocationIsEmpty ==
    (/\ response.op = "allocation" /\ response.read
     /\ Falsy(DATA_CACHE.sector_allocation) /\ Falsy(DATA_CACHE.market_cap)
     /\ (Falsy(DATA_CACHE.holdings) \/ TotalValue(DATA_CACHE.holdings.rows) = 0))
        => /\ response.status = 200
           /\ response.body = [bySector |-> <<>>, byMarketCap |-> <<>>]

\* C13: a load that succeeds leaves the six tables set, and from a state in
\* which they are set no handler changes DATA_CACHE or starts a load.
C13_SnapshotFrozenAfterLoad ==
    [][/\ response'.load = "ok" => Populated(DATA_CACHE')
       /\ Populated(DATA_CACHE) => DATA_CACHE' = DATA_CACHE /\ response'.load = "none"]_vars

\* A query has been answered from the snapshot of a successful load without
\* another load.
C13_Witness ==
    /\ Populated(DATA_CACHE) /\ Len(DATA_CACHE.holdings.rows) = 2
    /\ response.op = "summary" /\ response.load = "none" /\ response.status = 200

\* The file has holdings and every sheet read before Summary converts, and its
\* Summary sheet is missing or has no metric.
SummaryEmptyOrMissing(f) ==
    /\ f.exists /\ f.holdings.engine # "none"
    /\ \E i \in 1..Len(f.holdings.rows) : f.holdings.rows[i] \in {RowTCS, RowBlank}
    /\ f.performance.ok /\ ~AnyPerformanceRaises(f.performance.rows)
    /\ f.sector.ok /\ ~AnySectorRaises(f.sector.rows)
    /\ f.market_cap.ok /\ ~AnyMarketCapRaises(f.market_cap.rows)
    /\ ~f.summary.ok \/ \A i \in 1..Len(f.summary.rows) : ~Truthy(f.summary.rows[i].Metric)

\* The sum over the holdings of value (weighted = FALSE) or of quantity x avgPrice.
RECURSIVE HoldingsSum(_, _, _)
HoldingsSum(holdings, n, weighted) ==
    IF n = 0 THEN 0
    ELSE HoldingsSum(holdings, n - 1, weighted)
         + (IF weighted THEN holdings[n].quantity * holdings[n].avgPrice ELSE holdings[n].value)

\* x is the amount rounded to two decimals
IsRounded2(x, amount) == x % 10 = 0 /\ x - amount <= 5 /\ amount - x <= 5

\* The totals are those the claim derives from the holdings, to two decimals.
IsDerivedTotals(t, holdings) ==
    LET value == HoldingsSum(holdings, Len(holdings), FALSE)
        invested == HoldingsSum(holdings, Len(holdings), TRUE)
    IN  /\ IsRounded2(t.totalValue, value)
        /\ IsRounded2(t.totalInvested, invested)
        /\ IsRounded2(t.totalGainLoss, value - invested)
        /\ IF invested = 0 THEN t.totalGainLossPercent = 0
           ELSE /\ t.totalGainLossPercent % 10 = 0
                /\ Abs(t.totalGainLossPercent * invested - 100000 * (value - invested))
                       <= 5 * Abs(invested)

\* C12: when the Summary sheet of the file is empty or missing, get-summary
\* answers, and its totals are the sum of value, the sum of quantity x
\* avgPrice, their difference, and the difference over the invested sum x 100
\* (0 when the invested sum is 0), computed over the loaded holdings.
C12_SummaryTotalsFromHoldings ==
    (response.op = "summary" /\ SummaryEmptyOrMissing(file)) =>
        /\ response.status = 200
        /\ IsDerivedTotals(response.body.totals, DATA_CACHE.holdings.rows)

(***************************************************************************)
(* gainLossPercent (main.py:208-212) over a range of raw values: the       *)
(* server started on, and queried with, a one-row Holdings sheet.          *)
(***************************************************************************)
MaxGainLoss == 30     \* raw values run from -MaxGainLoss to MaxGainLoss twentieths

EmptySheets(holdingsSheets, performanceSheets) ==
    FilesOf(holdingsSheets, performanceSheets, {Sheet(<<>>)}, {Sheet(<<>>)}, {Sheet(<<>>)},
            {Sheet(<<>>)}) \ {NoFile}

GainLossCells ==
    {Null, Str("0.5")} \cup {Num(50 * k) : k \in (-MaxGainLoss)..MaxGainLoss}
GainLossRow(c) ==
    HoldingsRow(Str("WIPRO"), Str("Wipro"), Num(1000), Num(1000), Num(1000), Str("Technology"),
                Str("Large"), Num(1000), Num(0), c)
GainLossFiles ==
    EmptySheets({[engine |-> "openpyxl", columns |-> HoldingsColumns,
                  rows |-> <<RowTCS, GainLossRow(c)>>] : c \in GainLossCells},
                {Sheet(<<>>)})

NextGainLoss ==
    \/ Startup(GainLossFiles)
    \/ get_portfolio_holdings(GainLossFiles)

SpecGainLoss == Init /\ [][NextGainLoss]_vars

\* The raw gain/loss cell of the row of the Holdings sheet with the symbol.
RawGainLoss(f, symbol) ==
    LET i == CHOOSE j \in 1..Len(f.holdings.rows) : f.holdings.rows[j][<<"Symbol">>].s = symbol
    IN  f.holdings.rows[i][<<"Gain", "/", "Loss", " ", "%">>]

\* C7: the stored gainLossPercent of every holding is its raw value times 100
\* when the raw value is within [-1, 1], the raw value itself when it is
\* outside, and 0.0 when the raw cell is blank or zero.
C7_GainLossPercentNormalized ==
    \A i \in 1..Len(DATA_CACHE.holdings.rows) :
        LET stored == DATA_CACHE.holdings.rows[i]
            raw == RawGainLoss(file, stored.symbol)
        IN  /\ raw.k = "null" => stored.gainLossPercent = 0
            /\ raw.k = "num" /\ raw.n = 0 => stored.gainLossPercent = 0
            /\ raw.k = "num" /\ raw.n >= -1000 /\ raw.n <= 1000
                    => stored.gainLossPercent = raw.n * 100
            /\ raw.k = "num" /\ (raw.n < -1000 \/ raw.n > 1000)
                    => stored.gainLossPercent = raw.n

\* A raw value of exactly -1 has been stored as -100.0 and returned.
C7_Witness ==
    /\ response.op = "holdings" /\ response.status = 200
    /\ Len(response.body) = 2
    /\ RawGainLoss(file, "WIPRO") = Num(-1000)
    /\ response.body[2].symbol = "WIPRO"
    /\ response.body[2].gainLossPercent = -100000

(***************************************************************************)
(* calculate_performance_returns (main.py:445-483) over the timelines of   *)
(* up to MaxPoints points.                                                 *)
(***************************************************************************)
MaxPoints == 5

PerformancePoints ==
    {PerfRow(Str("2024-01-31"), Num(1000), Num(2000), Null),
     PerfRow(Str("2024-02-29"), Num(1500), Num(1900), Num(800)),
     PerfRow(Str("2024-03-31"), Num(1250), Num(-500), Num(900)),
     PerfRow(Str("2024-04-30"), Num(1170), Num(2100), Num(850))}
ReturnsFiles ==
    EmptySheets({[engine |-> "openpyxl", columns |-> HoldingsColumns, rows |-> <<RowTCS>>]},
                {Sheet(r) : r \in SeqsUpTo(PerformancePoints, MaxPoints)})

NextReturns ==
    \/ Startup(ReturnsFiles)
    \/ get_portfolio_performance(ReturnsFiles)

SpecReturns == Init /\ [][NextReturns]_vars

\* r is (current - past) / past x 100 rounded to one decimal, or 0 when past <= 0:
\* a whole number of tenths no further than 0.05 from the exact value.
IsReturn(r, current, past) ==
    IF past <= 0 THEN r = 0
    ELSE /\ r % 100 = 0
         /\ Abs(r * past - 100000 * (current - past)) <= 50 * past

\* The returns map is the one the claim describes for the timeline.
IsReturnsOf(returns, timeline) ==
    LET n == Len(timeline)
    IN  IF n < 2 THEN returns = <<>>
        ELSE /\ DOMAIN returns = {"portfolio", "nifty50", "gold"}
             /\ \A k \in DOMAIN returns :
                  /\ IsReturn(returns[k].month1, timeline[n][k], timeline[n - 1][k])
                  /\ IsReturn(returns[k].months3, timeline[n][k],
                              timeline[IF n >= 4 THEN n - 3 ELSE 1][k])
                  /\ IsReturn(returns[k].year1, timeline[n][k], timeline[1][k])

\* C9: the returns computed from the loaded timeline, and those returned by
\* get-performance, are empty for fewer than two points and otherwise compare
\* the last point with the points at n-2, at n-4 (the first point when n < 4)
\* and at 0, each return rounded to one decimal and 0 when the past value is
\* not positive.
C9_PerformanceReturns ==
    /\ ~DATA_CACHE.historical_performance.isNone =>
            IsReturnsOf(calculate_performance_returns(DATA_CACHE),
                        DATA_CACHE.historical_performance.rows)
    /\ response.op = "performance" /\ response.status = 200 =>
            IsReturnsOf(response.body.returns, response.body.timeline)

\* get-performance has answered for five points whose 3-month point (index 1)
\* gives another return than the first point.
C9_Witness ==
    /\ response.op = "performance" /\ response.status = 200
    /\ Len(response.body.timeline) = 5
    /\ response.body.returns["portfolio"].months3 # response.body.returns["portfolio"].year1
    /\ response.body.returns["portfolio"].months3 # response.body.returns["portfolio"].month1
    /\ response.body.returns["gold"].year1 = 0
    /\ response.body.timeline[1].gold = 0

(***************************************************************************)
(* calculate_diversification_score (main.py:486-504) over portfolios of up *)
(* to MaxHoldings holdings spread over up to MaxSectors sectors.           *)
(***************************************************************************)
MaxHoldings == 22
MaxSectors == 6

SectorNames ==
    <<"Technology", "Banking", "Healthcare", "FMCG", "Energy", "Automobile", "Metals",
      "Telecom">>
\* n holdings, the i-th in sector ((i - 1) mod k) + 1
SpreadRows(n, k) ==
    [i \in 1..n |->
        HoldingsRow(Str("STOCK"), Str("Stock"), Num(1000), Num(1000), Num(1000),
                    Str(SectorNames[((i - 1) % k) + 1]), Str("Large"), Num(1000), Num(0), Null)]
DiversificationFiles ==
    EmptySheets({[engine |-> "openpyxl", columns |-> HoldingsColumns, rows |-> SpreadRows(n, k)] :
                    n \in 0..MaxHoldings, k \in 1..MaxSectors},
                {Sheet(<<>>)})

NextDiversification ==
    \/ Startup(DiversificationFiles)
    \/ get_portfolio_summary(DiversificationFiles)

SpecDiversification == Init /\ [][NextDiversification]_vars

\* The score the claim gives to n holdings in d distinct sectors.
ClaimedScore(n, d) ==
    IF n = 0 THEN 5000
    ELSE LET base == IF 2 * d < 10 THEN 2 * d ELSE 10
             penalty == IF n > 10 THEN 100 * (n - 10) ELSE 0
             raw == 1000 * base - penalty
         IN  IF raw < 1000 THEN 1000 ELSE IF raw > 10000 THEN 10000 ELSE raw

SheetSectors(f) ==
    {f.holdings.rows[i][<<"Sector">>].s : i \in 1..Len(f.holdings.rows)}

\* C10: the diversification score of the loaded holdings is the claimed
\* function of their number and of the number of their sectors, lies in
\* [1.0, 10.0], and is the score get-summary returns.
C10_DiversificationScore ==
    ~DATA_CACHE.holdings.isNone =>
        LET score == calculate_diversification_score(DATA_CACHE)
        IN  /\ score = ClaimedScore(Len(file.holdings.rows), Cardinality(SheetSectors(file)))
            /\ score >= 1000 /\ score <= 10000
            /\ response.op = "summary" /\ response.status = 200
                    => response.body.diversificationScore = score

\* get-summary has answered 5.0 for 20 holdings in 3 sectors.
C10_Witness ==
    /\ response.op = "summary" /\ response.status = 200
    /\ Len(DATA_CACHE.holdings.rows) = 20
    /\ Cardinality(SheetSectors(file)) = 3
    /\ response.body.diversificationScore = 5000

(***************************************************************************)
(* determine_risk_level (main.py:507-533) over portfolios of up to         *)
(* MaxRiskHoldings holdings in up to MaxRiskSectors sectors, the first     *)
(* holding in Technology with a value of its own.                          *)
(***************************************************************************)
MaxRiskHoldings == 5
MaxRiskSectors == 5

RiskSectorNames ==
    <<"Technology", "Banking", "Healthcare", "FMCG", "Small Cap Stocks", "Energy", "Metals">>
\* <<value of the first holding, value of every other holding>>
RiskValues ==
    {<<9000, 7000>>, <<8900, 7000>>, <<9100, 7000>>, <<14000, 7000>>, <<13900, 7000>>,
     <<14100, 7000>>, <<30000, 7000>>, <<0, 7000>>, <<0, 0>>, <<-9000, -7000>>}
RiskRows(n, k, v) ==
    [i \in 1..n |->
        HoldingsRow(Str("STOCK"), Str("Stock"), Num(1000), Num(1000), Num(1000),
                    Str(RiskSectorNames[((i - 1) % k) + 1]), Str("Large"),
                    Num(IF i = 1 THEN v[1] ELSE v[2]), Num(0), Null)]
RiskFiles ==
    EmptySheets({[engine |-> "openpyxl", columns |-> HoldingsColumns, rows |-> RiskRows(n, k, v)] :
                    n \in 0..MaxRiskHoldings, k \in 1..MaxRiskSectors, v \in RiskValues},
                {Sheet(<<>>)})

NextRisk ==
    \/ Startup(RiskFiles)
    \/ get_portfolio_summary(RiskFiles)

SpecRisk == Init /\ [][NextRisk]_vars

\* The diversification scores the risk level is asked for.
RiskScores == {1000, 5900, 6000, 7900, 8000, 10000}

\* The value cells of the Holdings sheet, all or those of the high-risk sectors.
RECURSIVE SheetValueSum(_, _)
SheetValueSum(rows, sectors) ==
    IF rows = <<>> THEN 0
    ELSE (IF Head(rows)[<<"Sector">>].s \in sectors
          THEN Head(rows)[<<"Value", " ", "(", "Rs", ")">>].n ELSE 0)
         + SheetValueSum(Tail(rows), sectors)
SheetTotal(f) == SheetValueSum(f.holdings.rows, SheetSectors(f))
SheetExposure(f) == SheetValueSum(f.holdings.rows, {"Technology", "Small Cap Stocks"})

\* exposure / total < num / den, the ratio being 0 when the total is 0
RatioBelow(exposure, total, num, den) ==
    IF total = 0 THEN TRUE
    ELSE IF total > 0 THEN den * exposure < num * total
    ELSE den * exposure > num * total
\* exposure / total < num / den, the ratio being 0 when the total is not positive
PositiveRatioBelow(exposure, total, num, den) ==
    IF total <= 0 THEN TRUE ELSE den * exposure < num * total

LevelFor(d, below30, below50, holdings) ==
    IF holdings = 0 THEN "Moderate"
    ELSE IF d >= 8000 /\ below30 THEN "Conservative"
    ELSE IF d >= 6000 /\ below50 THEN "Moderate"
    ELSE "Aggressive"
\* The level of the claim as written
ClaimedLevel(d, f) ==
    LevelFor(d, RatioBelow(SheetExposure(f), SheetTotal(f), 3, 10),
             RatioBelow(SheetExposure(f), SheetTotal(f), 1, 2), Len(f.holdings.rows))
\* The level of the claim with the ratio 0 for every total that is not positive
AmendedLevel(d, f) ==
    LevelFor(d, PositiveRatioBelow(SheetExposure(f), SheetTotal(f), 3, 10),
             PositiveRatioBelow(SheetExposure(f), SheetTotal(f), 1, 2), Len(f.holdings.rows))

\* C11 as written: for the loaded holdings determine_risk_level, and the risk
\* level get-summary returns, is Conservative iff diversification >= 8 and
\* ratio < 0.3, else Moderate iff diversification >= 6 and ratio < 0.5, else
\* Aggressive, with ratio = high-risk value / total value, 0 when the total
\* is 0; Moderate with no holdings.
C11_RiskLevelAsWritten ==
    ~DATA_CACHE.holdings.isNone =>
        /\ \A d \in RiskScores : determine_risk_level(d, DATA_CACHE) = ClaimedLevel(d, file)
        /\ response.op = "summary" /\ response.status = 200 =>
              response.body.riskLevel =
                  ClaimedLevel(calculate_diversification_score(DATA_CACHE), file)

\* C11 amended: the same, with the ratio 0 whenever the total value is not
\* positive (zero or negative).
C11_RiskLevel ==
    ~DATA_CACHE.holdings.isNone =>
        /\ \A d \in RiskScores : determine_risk_level(d, DATA_CACHE) = AmendedLevel(d, file)
        /\ \A d \in RiskScores :
              determine_risk_level(d, DATA_CACHE) \in {"Conservative", "Moderate", "Aggressive"}
        /\ response.op = "summary" /\ response.status = 200 =>
              response.body.riskLevel =
                  AmendedLevel(calculate_diversification_score(DATA_CACHE), file)

\* get-summary has answered Moderate for a diversification of 8.0 and a ratio
\* of exactly 0.3 (9.0 of 30.0 in Technology).
C11_Witness ==
    /\ response.op = "summary" /\ response.status = 200
    /\ response.body.diversificationScore = 8000
    /\ SheetExposure(file) = 9000 /\ SheetTotal(file) = 30000
    /\ response.body.riskLevel = "Moderate"
    /\ determine_risk_level(8000, DATA_CACHE) = "Moderate"

(***************************************************************************)
(* The fallback allocation (main.py:390-409 and 423-442) over N holdings   *)
(* of one value in N sectors and N market caps, N up to MaxEqual.          *)
(***************************************************************************)
MaxEqual == 12

EqualValues == {333, 1000, 2500, 7000, 12000}
EqualRows(n, v) ==
    [i \in 1..n |->
        HoldingsRow(Str("STOCK"), Str("Stock"), Num(1000), Num(1000), Num(1000),
                    Str("Sector " \o ToString(i)), Str("Cap " \o ToString(i)),
                    Num(v), Num(0), Null)]
EqualFiles ==
    EmptySheets({[engine |-> "openpyxl", columns |-> HoldingsColumns, rows |-> EqualRows(n, v)] :
                    n \in 0..MaxEqual, v \in EqualValues},
                {Sheet(<<>>)})

NextEqual ==
    \/ Startup(EqualFiles)
    \/ get_portfolio_allocation(EqualFiles)

SpecEqual == Init /\ [][NextEqual]_vars

RECURSIVE PercentageSum(_, _)
PercentageSum(allocation, n) ==
    IF n = 0 THEN 0 ELSE PercentageSum(allocation, n - 1) + allocation[n].percentage

\* The percentages of the allocation sum to 100.0 within the tolerance.
SumsTo100(allocation, tolerance) ==
    /\ PercentageSum(allocation, Len(allocation)) - 100000 <= tolerance
    /\ 100000 - PercentageSum(allocation, Len(allocation)) <= tolerance

\* get-allocation has answered with one bucket per holding of the file.
EqualAllocation ==
    /\ response.op = "allocation" /\ response.status = 200
    /\ Len(file.holdings.rows) >= 1
    /\ Len(response.body.bySector) = Len(file.holdings.rows)
    /\ Len(response.body.byMarketCap) = Len(file.holdings.rows)

\* C14 as written: the percentages of the fallback allocation over N holdings
\* of equal positive value in N distinct categories sum to 100.0 within 0.1.
C14_EqualSharesSumWithinTenth ==
    EqualAllocation =>
        /\ SumsTo100(response.body.bySector, 100)
        /\ SumsTo100(response.body.byMarketCap, 100)

\* C14 amended: get-allocation answers with N buckets, each percentage is a
\* whole number of tenths, and the percentages sum to 100.0 within 0.05 x N.
C14_EqualSharesSumWithinRounding ==
    (response.op = "allocation" /\ Len(file.holdings.rows) >= 1) =>
        /\ EqualAllocation
        /\ \A i \in 1..Len(response.body.bySector) :
              /\ response.body.bySector[i].percentage % 100 = 0
              /\ response.body.byMarketCap[i].percentage % 100 = 0
        /\ SumsTo100(response.body.bySector, 50 * Len(file.holdings.rows))
        /\ SumsTo100(response.body.byMarketCap, 50 * Len(file.holdings.rows))

\* get-allocation has answered six shares of 16.7, which sum to 100.2.
C14_Witness ==
    /\ EqualAllocation
    /\ Len(response.body.bySector) = 6
    /\ \A i \in 1..6 : response.body.bySector[i].percentage = 16700
    /\ PercentageSum(response.body.byMarketCap, 6) = 100200

(***************************************************************************)
(* column_mapping (main.py:145-162) over Holdings sheets whose headers are *)
(* Symbol and up to MaxColumns headers of a pool, some of which satisfy    *)
(* two rules.                                                              *)
(***************************************************************************)
MaxColumns == 3

HeaderPool ==
    {<<"AVG", " ", "PRICE">>, <<"Avg", " ", "Current", " ", "Price">>,
     <<"Current", " ", "Price">>, <<"Value", " ", "(", "Rs", ")">>, <<"VALUE">>,
     <<"Gain", "/", "Loss", " ", "Value", " ", "(", "Rs", ")">>,
     <<"Gain", "/", "Loss", " ", "%", " ", "(", "Rs", ")">>,
     <<"Gain", "/", "Loss", " ", "%">>, <<"Company", " ", "Name">>,
     <<"Market", " ", "Cap", " ", "Company", " ", "Name">>, <<"Market", " ", "Cap">>,
     <<"Sector">>}

\* One row: the symbol, and under every other header a number of its own.
HeaderCell(col) == IF col = <<"Symbol">> THEN Str("TCS") ELSE Num(1000 * Len(col))
ColumnSheets ==
    {[engine |-> "openpyxl", columns |-> {<<"Symbol">>} \cup h,
      rows |-> <<[col \in {<<"Symbol">>} \cup h |-> HeaderCell(col)]>>] :
        h \in {x \in SUBSET HeaderPool : Cardinality(x) <= MaxColumns}}
ColumnFiles == EmptySheets(ColumnSheets, {Sheet(<<>>)})

NextColumns ==
    \/ Startup(ColumnFiles)
    \/ get_portfolio_holdings(ColumnFiles)

SpecColumns == Init /\ [][NextColumns]_vars

\* main.py:146-162, the loop over holdings_columns in the order given:
\* column_mapping as the list of its items.
RECURSIVE ColumnMappingIn(_)
ColumnMappingIn(order) ==
    IF order = <<>> THEN <<>>
    ELSE LET col == order[Len(order)]
             before == ColumnMappingIn(SubSeq(order, 1, Len(order) - 1))
         IN  IF FieldOf(col) # ""
             THEN DictSet(before, [key |-> col, value |-> FieldOf(col)])
             ELSE before

\* The orders in which the headers can be processed.
RECURSIVE Orders(_)
Orders(columns) ==
    IF columns = {} THEN {<<>>}
    ELSE UNION {{Append(o, col) : o \in Orders(columns \ {col})} : col \in columns}

\* The rules of the claim, in their order.
Rules ==
    <<"avg_price", "current_price", "value", "gain_loss", "gain_loss_percent",
      "company_name", "market_cap">>
HasWord(col, word) == \E k \in 1..Len(col) : Lower(col[k]) = word
HasSign(col, sign) == \E k \in 1..Len(col) : col[k] = sign
Satisfies(col, i) ==
    CASE i = 1 -> HasWord(col, "avg") /\ HasWord(col, "price")
      [] i = 2 -> HasWord(col, "current") /\ HasWord(col, "price")
      [] i = 3 -> HasWord(col, "value") /\ HasSign(col, "Rs")
      [] i = 4 -> HasWord(col, "gain") /\ HasWord(col, "loss") /\ HasSign(col, "Rs")
      [] i = 5 -> HasWord(col, "gain") /\ HasWord(col, "loss") /\ HasSign(col, "%")
      [] i = 6 -> HasWord(col, "company") /\ HasWord(col, "name")
      [] OTHER -> HasWord(col, "market") /\ HasWord(col, "cap")
\* The first rule the header satisfies, 0 when it satisfies none.
FirstRule(col) ==
    IF \E i \in 1..7 : Satisfies(col, i)
    THEN CHOOSE i \in 1..7 : Satisfies(col, i) /\ \A j \in 1..(i - 1) : ~Satisfies(col, j)
    ELSE 0

\* C15: in whatever order the headers of the Holdings sheet are processed,
\* column_mapping holds for each header at most one field, the one of the first
\* rule the header satisfies, and nothing for a header that satisfies no rule;
\* and after a load the value read under a header assigned to value is the
\* holding's value.
C15_FirstRuleWins ==
    /\ file.exists =>
       \A order \in Orders(file.holdings.columns) :
          LET m == ColumnMappingIn(order)
          IN  \A col \in file.holdings.columns :
                /\ Cardinality({k \in 1..Len(m) : m[k].key = col}) <= 1
                /\ FirstRule(col) = 0 => \A k \in 1..Len(m) : m[k].key # col
                /\ FirstRule(col) # 0 =>
                      \E k \in 1..Len(m) : m[k].key = col /\ m[k].value = Rules[FirstRule(col)]
    /\ (file.exists /\ ~DATA_CACHE.holdings.isNone) =>
          \A col \in file.holdings.columns :
              FirstRule(col) = 3 =>
                  DATA_CACHE.holdings.rows[1].value = file.holdings.rows[1][col].n

\* A sheet with a header that satisfies the rules of value and of gain_loss,
\* and a header that satisfies none, has been loaded and returned: the cell
\* under the first header is the holding's value.
C15_Witness ==
    /\ response.op = "holdings" /\ response.status = 200
    /\ <<"Gain", "/", "Loss", " ", "Value", " ", "(", "Rs", ")">> \in file.holdings.columns
    /\ <<"VALUE">> \in file.holdings.columns
    /\ <<"AVG", " ", "PRICE">> \in file.holdings.columns
    /\ response.body[1].value = 9000
    /\ response.body[1].avgPrice = 3000

(***************************************************************************)
(* Requests in flight at one time.  Every handler is a coroutine on one    *)
(* event loop: its task runs until it awaits something that is not ready   *)
(* or ends, and only then does another task run.  load_excel_data          *)
(* (main.py:109-366) and ensure_data_loaded (main.py:369-376) await        *)
(* nothing that suspends; get_portfolio_allocation awaits asyncio.gather   *)
(* (main.py:610), which runs the two allocation functions as tasks of      *)
(* their own.  A request is at "ready" (arrived, not yet run), at "load"   *)
(* (inside load_excel_data, before the read of sheet number stage), at     *)
(* "read" (after ensure_data_loaded), at "gather" or at "done".            *)
(***************************************************************************)
Ops == {"holdings", "allocation", "performance", "summary", "marketcap", "health"}

\* The sheets in the order load_excel_data reads them; each stage ends with its
\* write to DATA_CACHE (main.py:221, 262, 281, 309, 332, 359).
Stages ==
    <<"holdings", "historical_performance", "sector_allocation", "market_cap", "summary",
      "top_performers">>

\* One stage of load_excel_data: whether it got through, and the cache it leaves.
LoadStage(stage, f, cache) ==
    LET rows == CASE stage = 1 -> f.holdings.rows   [] stage = 2 -> f.performance.rows
                  [] stage = 3 -> f.sector.rows     [] stage = 4 -> f.market_cap.rows
                  [] stage = 5 -> f.summary.rows    [] OTHER -> f.top_performers.rows
        raised ==
            CASE stage = 1 -> ~f.exists \/ f.holdings.engine = "none"
                              \/ RenameRaises(f.holdings.columns)
              [] stage = 2 -> ~f.performance.ok \/ AnyPerformanceRaises(rows)
              [] stage = 3 -> ~f.sector.ok \/ AnySectorRaises(rows)
              [] stage = 4 -> ~f.market_cap.ok \/ AnyMarketCapRaises(rows)
              [] stage = 5 -> ~f.summary.ok
              [] OTHER -> ~f.top_performers.ok
        table ==
            CASE stage = 1 -> HoldingsData(rows)    [] stage = 2 -> PerformanceData(rows)
              [] stage = 3 -> SectorData(rows)      [] stage = 4 -> MarketCapData(rows)
              [] stage = 5 -> SummaryData(rows)     [] OTHER -> TopPerformersData(rows)
    IN  IF raised THEN [ok |-> FALSE, cache |-> cache]
        ELSE [ok |-> TRUE, cache |-> [cache EXCEPT ![Stages[stage]] = Some(table)]]

\* Mutant: the task gives up the event loop at every sheet read as well.
SuspendsAtSheetReads(pc) == pc \in {"gather", "done", "load"}

\* The positions at which a task gives up the event loop: the await of
\* asyncio.gather (main.py:610) and its end.
Suspends(pc) == pc \in {"gather", "done"}

\* The event loop runs the task of request r: it holds the loop, or no task
\* does and r has something to run.
Runs(r) ==
    \/ running = r
    \/ running = 0 /\ requests[r].pc \notin {"idle", "done"}

\* The request moves on, and keeps the event loop unless it suspends.
MoveTo(r, req) ==
    /\ requests' = [requests EXCEPT ![r] = req]
    /\ running' = IF Suspends(req.pc) THEN 0 ELSE r

\* The reply of a handler that got through ensure_data_loaded, or that caught
\* its HTTPException.
ReplyOf(op, e) ==
    CASE op = "holdings" -> GetHoldingsReply(e)
      [] op = "allocation" -> GetAllocationReply(e)
      [] op = "performance" -> GetPerformanceReply(e)
      [] op = "summary" -> GetSummaryReply(e)
      [] op = "marketcap" -> GetMarketCapReply(e)
      [] OTHER -> HealthReply(e.cache)

\* A request for an endpoint arrives while the server is up.
Arrive(r) ==
    /\ started
    /\ requests[r].pc = "idle"
    /\ \E op \in Ops : requests' = [requests EXCEPT ![r] = [NoRequest EXCEPT !.op = op,
                                                                          !.pc = "ready"]]
    /\ UNCHANGED <<DATA_CACHE, started, file, response, running>>

\* The handler starts: ensure_data_loaded's test (main.py:371), which
\* health_check does not make.
Enter(r, files) ==
    /\ Runs(r)
    /\ requests[r].pc = "ready"
    /\ IF requests[r].op # "health" /\ DATA_CACHE.holdings.isNone
       THEN /\ \E f \in files : file' = f
            /\ MoveTo(r, [requests[r] EXCEPT !.pc = "load", !.stage = 1])
       ELSE /\ MoveTo(r, [requests[r] EXCEPT !.pc = "read"])
            /\ UNCHANGED file
    /\ UNCHANGED <<DATA_CACHE, started, response>>

\* load_excel_data reads and converts one sheet and writes its table; when it
\* raises, ensure_data_loaded raises and the handler answers 500.
LoadStep(r) ==
    /\ Runs(r)
    /\ requests[r].pc = "load"
    /\ \E res \in {LoadStage(requests[r].stage, file, DATA_CACHE)} :
        /\ DATA_CACHE' = res.cache
        /\ IF ~res.ok
           THEN /\ MoveTo(r, [requests[r] EXCEPT !.pc = "done", !.load = "failed"])
                /\ response' = ReplyOf(requests[r].op,
                                       [load |-> "failed", raised |-> TRUE, cache |-> res.cache])
           ELSE /\ IF requests[r].stage < Len(Stages)
                   THEN MoveTo(r, [requests[r] EXCEPT !.stage = @ + 1])
                   ELSE MoveTo(r, [requests[r] EXCEPT !.pc = "read", !.load = "ok"])
                /\ UNCHANGED response
    /\ UNCHANGED <<started, file>>

\* The rest of the handler: it reads DATA_CACHE and answers, or, in
\* get_portfolio_allocation, awaits asyncio.gather.
Read(r) ==
    /\ Runs(r)
    /\ requests[r].pc = "read"
    /\ IF requests[r].op = "allocation"
       THEN /\ MoveTo(r, [requests[r] EXCEPT !.pc = "gather"])
            /\ UNCHANGED response
       ELSE /\ MoveTo(r, [requests[r] EXCEPT !.pc = "done"])
            /\ response' = ReplyOf(requests[r].op,
                                   [load |-> requests[r].load, raised |-> FALSE,
                                    cache |-> DATA_CACHE])
    /\ UNCHANGED <<DATA_CACHE, started, file>>

\* The two allocation tasks of asyncio.gather run one after the other, each
\* reads DATA_CACHE, and get_portfolio_allocation answers (main.py:610-615).
Gather(r) ==
    /\ Runs(r)
    /\ requests[r].pc = "gather"
    /\ MoveTo(r, [requests[r] EXCEPT !.pc = "done"])
    /\ response' = ReplyOf("allocation", [load |-> requests[r].load, raised |-> FALSE,
                                          cache |-> DATA_CACHE])
    /\ UNCHANGED <<DATA_CACHE, started, file>>

ConcurrentFiles ==
    FilesOf({[engine |-> "openpyxl", columns |-> HoldingsColumns, rows |-> <<RowTCS>>]},
            {Sheet(<<>>)}, {Sheet(<<>>)}, {Sheet(<<>>)}, {Unreadable, Sheet(<<>>)},
            {Unreadable, Sheet(<<>>)})

NextConcurrent ==
    \/ Startup(ConcurrentFiles)
    \/ \E r \in 1..MaxRequests : Arrive(r)
    \/ \E r \in 1..MaxRequests : Enter(r, ConcurrentFiles)
    \/ \E r \in 1..MaxRequests : LoadStep(r)
    \/ \E r \in 1..MaxRequests : Read(r)
    \/ \E r \in 1..MaxRequests : Gather(r)

SpecConcurrent == Init /\ [][NextConcurrent]_vars

\* The request is inside a load, after its first and before its last write.
MidLoad(req) == req.pc = "load" /\ req.stage >= 2

\* C16: at most one request is inside load_excel_data at any time, and no
\* request takes a step that reads DATA_CACHE while another request is between
\* the first and the last cache write of its load.
C16_LoadsAreExclusive ==
    [][/\ Cardinality({r \in 1..MaxRequests : requests'[r].pc = "load"}) <= 1
       /\ \A q \in 1..MaxRequests :
            (requests[q].pc \in {"read", "gather"} /\ requests'[q] # requests[q]) =>
                \A r \in 1..MaxRequests \ {q} : ~MidLoad(requests[r])]_vars

\* A request has arrived and waits while the load started by another request
\* has written three tables and not yet the others.
C16_Witness ==
    /\ requests[1].pc = "load" /\ requests[1].stage = 4
    /\ requests[2].pc = "ready" /\ requests[2].op = "allocation"
    /\ running = 1
    /\ ~DATA_CACHE.sector_allocation.isNone /\ DATA_CACHE.summary.isNone

====
